---- MODULE Spec2Model ----
(***************************************************************************)
(* A model of geoalchemy/spatialite.py: the SQLite (SpatiaLite) dialect of *)
(* GeoAlchemy.  It covers the capability gate supports_rtree, the column   *)
(* lifecycle hooks handle_ddl_after_create / handle_ddl_before_drop, the   *)
(* within-distance rewrite sqlite_functions._within_distance, the function *)
(* map of the dialect and the name dispatch of the two adapters.           *)
(***************************************************************************)
EXTENDS Integers, Sequences, FiniteSets, TLC

VARIABLES
    server_version_info, \* bind.dialect.server_version_info of the connection
    catalog,             \* rows of the spatial metadata catalog: <<table, column>>
    relations,           \* names of the index storage relations that exist
    enabled,             \* <<table, column>> whose spatial index is enabled
    schema,              \* per column: "absent", "created" or "partial"
    issued,              \* statements handed to bind.execute by the last hook
    raised,              \* the failure that reached the caller of the last hook
    last,                \* the last operation: <<[op, column, from]>>
    emitted,             \* the expression the last within-distance rewrite returned
    gateAnswer,          \* the answer of a supports_rtree call
    resolved,            \* the result of a function-map resolution
    dispatched,          \* the result of a name dispatch on an adapter
    probe,               \* a stored row geometry, a query geometry and a distance
    selected             \* which forms of the within-distance query select the row

hookVars == <<catalog, relations, enabled, schema, issued, raised, last, emitted>>
gateVars == <<gateAnswer>>
catalogVars == <<resolved, dispatched>>
filterVars == <<probe, selected>>
vars == <<server_version_info, hookVars, gateVars, catalogVars, filterVars>>

----------------------------------------------------------------------------
(* Bounds of the model. *)

MaxMajor == 4
MaxMinor == 7
MaxPatch == 1
MaxDistance == 1

Versions == (0 .. MaxMajor) \X (0 .. MaxMinor) \X (0 .. MaxPatch)

(* The connections the lifecycle model runs on: both sides of the gate. *)
ConnectionVersions ==
    {v \in Versions : v[1] \in {3, 4} /\ v[2] \in {6, 7} /\ v[3] = 0}

Distances == 1 .. MaxDistance

----------------------------------------------------------------------------
(* Column descriptors: a GeometryExtensionColumn with its table and type. *)

Table(schemaName, name) == [schema |-> schemaName, name |-> name]

(* sqlalchemy's Table.fullname: the schema-qualified name. *)
fullname(t) == IF t.schema = "" THEN t.name ELSE t.schema \o "." \o t.name

Column(t, name, key, srid, typename, nullable, spatial_index) ==
    [table |-> t, name |-> name, key |-> key, srid |-> srid,
     typename |-> typename, dimension |-> 2, nullable |-> nullable,
     spatial_index |-> spatial_index]

Roads  == Column(Table("", "roads"), "geom", "geom", 4326, "LINESTRING", FALSE, TRUE)
Lakes  == Column(Table("aux", "lakes"), "geom", "geom", 4326, "POLYGON", TRUE, TRUE)
Pois   == Column(Table("", "pois"), "loc", "loc", 4326, "POINT", TRUE, FALSE)

Columns == {Roads, Lakes, Pois}

----------------------------------------------------------------------------
(* The capability gate. *)

supports_rtree(info) ==
    info[1] > 3 \/ (info[1] = 3 /\ info[2] <= 6)

----------------------------------------------------------------------------
(* The statements of the lifecycle hooks and what the engine does with them. *)

Stmt(fn, args) == [fn |-> fn, args |-> args]

IndexStorage(tableName, columnName) == "idx_" \o tableName \o "_" \o columnName

Database == [catalog |-> catalog, relations |-> relations, enabled |-> enabled]

(* A statement the engine refuses whatever the connection's health. *)
Refused(db, s) ==
    s.fn = "DROP TABLE" /\ s.args[1] \notin db.relations

Effect(db, s) ==
    CASE s.fn = "AddGeometryColumn" ->
            [db EXCEPT !.catalog = @ \cup {<<s.args[1], s.args[2]>>}]
      [] s.fn = "CreateSpatialIndex" ->
            [db EXCEPT !.relations = @ \cup {IndexStorage(s.args[1], s.args[2])},
                       !.enabled = @ \cup {<<s.args[1], s.args[2]>>}]
      [] s.fn = "DisableSpatialIndex" ->
            [db EXCEPT !.enabled = @ \ {<<s.args[1], s.args[2]>>}]
      [] s.fn = "DROP TABLE" ->
            [db EXCEPT !.relations = @ \ {s.args[1]}]
      [] s.fn = "DiscardGeometryColumn" ->
            [db EXCEPT !.catalog = @ \ {<<s.args[1], s.args[2]>>}]
      [] OTHER -> db

(* bind.execute over a hook's statements in order: a statement that fails  *)
(* raises, and the exception leaves the hook.  failAt is the statement the *)
(* connection fails on (0: none).                                          *)
RECURSIVE Execute(_, _, _, _)
Execute(stmts, i, failAt, run) ==
    IF i > Len(stmts) THEN run
    ELSE IF i = failAt \/ Refused(run.db, stmts[i])
         THEN [run EXCEPT !.issued = Append(@, stmts[i]),
                          !.raised = <<stmts[i]>>]
         ELSE Execute(stmts, i + 1, failAt,
                      [run EXCEPT !.issued = Append(@, stmts[i]),
                                  !.db = Effect(@, stmts[i])])

(* A hook that undoes what it did when a statement fails. *)
bind_execute_rollback(stmts, failAt) ==
    LET run == Execute(stmts, 1, failAt,
                       [db |-> Database, issued |-> <<>>, raised |-> <<>>])
    IN IF run.raised # <<>> THEN [run EXCEPT !.db = Database] ELSE run

bind_execute(stmts, failAt) ==
    Execute(stmts, 1, failAt, [db |-> Database, issued |-> <<>>, raised |-> <<>>])

(* The flag with the sense of nullable kept instead of negated. *)
not_null_flag_inverted(c) == IF c.nullable THEN 1 ELSE 0

not_null_flag(c) == IF c.nullable THEN 0 ELSE 1

handle_ddl_after_create(info, t, c) ==
    <<Stmt("AddGeometryColumn",
           <<t.name, c.name, c.srid, c.typename, c.dimension,
             not_null_flag(c)>>)>>
    \o (IF c.spatial_index /\ supports_rtree(info)
        THEN <<Stmt("CreateSpatialIndex", <<t.name, c.name>>),
               Stmt("VACUUM", <<t.name>>)>>
        ELSE <<>>)

(* A drop hook that deregisters the column before it removes the index. *)
handle_ddl_before_drop_discard_first(info, t, c) ==
    <<Stmt("DiscardGeometryColumn", <<t.name, c.name>>)>>
    \o (IF c.spatial_index /\ supports_rtree(info)
        THEN <<Stmt("DisableSpatialIndex", <<t.name, c.name>>),
               Stmt("DROP TABLE", <<IndexStorage(t.name, c.name)>>)>>
        ELSE <<>>)

(* A drop hook that disables the index and leaves its storage behind. *)
handle_ddl_before_drop_keeps_storage(info, t, c) ==
    (IF c.spatial_index /\ supports_rtree(info)
     THEN <<Stmt("DisableSpatialIndex", <<t.name, c.name>>)>>
     ELSE <<>>)
    \o <<Stmt("DiscardGeometryColumn", <<t.name, c.name>>)>>

handle_ddl_before_drop(info, t, c) ==
    (IF c.spatial_index /\ supports_rtree(info)
     THEN <<Stmt("DisableSpatialIndex", <<t.name, c.name>>),
            Stmt("DROP TABLE", <<IndexStorage(t.name, c.name)>>)>>
     ELSE <<>>)
    \o <<Stmt("DiscardGeometryColumn", <<t.name, c.name>>)>>

----------------------------------------------------------------------------
(* The within-distance rewrite. *)

ColumnRef(c) == [kind |-> "column", column |-> c]
FunctionExpr(c) == [kind |-> "function", column |-> c]
Operands == {ColumnRef(c) : c \in Columns} \cup {FunctionExpr(Roads)}

(* isinstance(geom1, GeometryExtensionColumn) *)
IsGeometryExtensionColumn(g) == g.kind = "column"

DistancePredicate(geom1, geom2, distance) ==
    [fn |-> "Distance", left |-> geom1, right |-> geom2, op |-> "<=",
     bound |-> distance]

Bound(name, op, mbr, geom2, sign, distance) ==
    [name |-> name, op |-> op, mbr |-> mbr, of |-> geom2, sign |-> sign,
     distance |-> distance]

(* The condition with the column's spatial_index flag left out. *)
uses_index_ignoring_flag(info, geom1) ==
    IsGeometryExtensionColumn(geom1) /\ supports_rtree(info)

uses_index(info, geom1) ==
    IsGeometryExtensionColumn(geom1) /\ geom1.column.spatial_index
    /\ supports_rtree(info)

within_distance(info, geom1, geom2, distance) ==
    IF uses_index(info, geom1)
    THEN [distance |-> DistancePredicate(geom1, geom2, distance),
          membership |->
            <<[rowid |-> fullname(geom1.column.table),
               pkid |-> "idx_" \o fullname(geom1.column.table) \o "_"
                          \o geom1.column.key,
               where |-> <<Bound("xmin", ">=", "MbrMinX", geom2, "-", distance),
                           Bound("xmax", "<=", "MbrMaxX", geom2, "+", distance),
                           Bound("ymin", ">=", "MbrMinY", geom2, "-", distance),
                           Bound("ymax", "<=", "MbrMaxY", geom2, "+", distance)>>]>>]
    ELSE [distance |-> DistancePredicate(geom1, geom2, distance),
          membership |-> <<>>]

----------------------------------------------------------------------------
(* The lifecycle specification: hooks and rewrites on one connection. *)

IdleRest ==
    /\ gateAnswer = <<>>
    /\ resolved = <<>>
    /\ dispatched = <<>>
    /\ probe = <<>>
    /\ selected = <<>>

Init ==
    /\ server_version_info \in ConnectionVersions
    /\ catalog = {}
    /\ relations = {}
    /\ enabled = {}
    /\ schema = [c \in Columns |-> "absent"]
    /\ issued = <<>>
    /\ raised = <<>>
    /\ last = <<>>
    /\ emitted = <<>>
    /\ IdleRest

Hook(op, c, stmts, failAt) ==
    LET run == bind_execute(stmts, failAt) IN
    /\ catalog' = run.db.catalog
    /\ relations' = run.db.relations
    /\ enabled' = run.db.enabled
    /\ issued' = run.issued
    /\ raised' = run.raised
    /\ last' = <<[op |-> op, column |-> c, from |-> schema[c]]>>
    /\ emitted' = <<>>
    /\ schema' = [schema EXCEPT ![c] =
                    IF run.raised # <<>> THEN "partial"
                    ELSE IF op = "create" THEN "created" ELSE "absent"]

(* The table of c has just been created: the after-create hook runs. *)
ColumnCreate(c) ==
    /\ schema[c] = "absent"
    /\ \E failAt \in 0 .. 3 :
          Hook("create", c,
               handle_ddl_after_create(server_version_info, c.table, c), failAt)
    /\ UNCHANGED <<server_version_info, gateVars, catalogVars, filterVars>>

(* The table of c is about to be dropped: the before-drop hook runs. *)
ColumnDrop(c) ==
    /\ schema[c] # "absent"
    /\ \E failAt \in 0 .. 3 :
          Hook("drop", c,
               handle_ddl_before_drop(server_version_info, c.table, c), failAt)
    /\ UNCHANGED <<server_version_info, gateVars, catalogVars, filterVars>>

WithinDistance(geom1, distance) ==
    /\ emitted' = <<[geom1 |-> geom1, geom2 |-> "point", distance |-> distance,
                     expr |-> within_distance(server_version_info, geom1,
                                              "point", distance)]>>
    /\ last' = <<[op |-> "within_distance", column |-> geom1.column,
                  from |-> schema[geom1.column]]>>
    /\ UNCHANGED <<catalog, relations, enabled, schema, issued, raised>>
    /\ UNCHANGED <<server_version_info, gateVars, catalogVars, filterVars>>

Next ==
    \/ \E c \in Columns : ColumnCreate(c)
    \/ \E c \in Columns : ColumnDrop(c)
    \/ \E g \in Operands, d \in Distances : WithinDistance(g, d)

Spec == Init /\ [][Next]_vars

----------------------------------------------------------------------------
(* Properties of the lifecycle specification. *)

IsPrefix(s, t) == Len(s) <= Len(t) /\ \A i \in 1 .. Len(s) : s[i] = t[i]

Entry(c) == <<c.table.name, c.name>>

Gated(c) == c.spatial_index /\ supports_rtree(server_version_info)

LastIs(op) == last # <<>> /\ last[1].op = op

(* C1: the rewrite emits the indexed form (the exact distance comparison   *)
(* and a rowid membership test against the index relation) exactly when   *)
(* geom1 is a geometry column reference, its spatial_index flag is true   *)
(* and the gate answers true for the dialect; in every other case it      *)
(* emits the distance comparison alone, with no subquery.                 *)
C1_IndexedFormIffEligible ==
    emitted # <<>> =>
        LET e == emitted[1]
            g == e.geom1
            eligible == g.kind = "column" /\ g.column.spatial_index
                        /\ supports_rtree(server_version_info)
        IN /\ e.expr.distance.fn = "Distance"
           /\ e.expr.distance.left = g
           /\ e.expr.distance.right = e.geom2
           /\ e.expr.distance.op = "<="
           /\ e.expr.distance.bound = e.distance
           /\ eligible => /\ Len(e.expr.membership) = 1
                          /\ e.expr.membership[1].pkid =
                               "idx_" \o fullname(g.column.table) \o "_"
                                 \o g.column.key
                          /\ Len(e.expr.membership[1].where) = 4
           /\ ~eligible => e.expr.membership = <<>>

C1_Witness ==
    /\ emitted # <<>>
    /\ emitted[1].geom1 = ColumnRef(Roads)
    /\ emitted[1].expr.membership # <<>>

(* C4: the create hook issues AddGeometryColumn(table, column, srid,       *)
(* subtype, dimension, 1 iff not nullable) first; with the flag set and   *)
(* the gate true it then issues CreateSpatialIndex and VACUUM in that     *)
(* order, otherwise nothing more; no index statement precedes             *)
(* registration.  A failing statement cuts the sequence short.            *)
C4_CreateRegistersFirst ==
    LastIs("create") =>
        LET c == last[1].column
            registration ==
                [fn |-> "AddGeometryColumn",
                 args |-> <<c.table.name, c.name, c.srid, c.typename,
                            c.dimension, IF c.nullable THEN 0 ELSE 1>>]
            index == <<[fn |-> "CreateSpatialIndex",
                        args |-> <<c.table.name, c.name>>],
                       [fn |-> "VACUUM", args |-> <<c.table.name>>]>>
            expected == IF Gated(c) THEN <<registration>> \o index
                        ELSE <<registration>>
        IN /\ Len(issued) >= 1
           /\ issued[1] = registration
           /\ IsPrefix(issued, expected)
           /\ raised = <<>> => issued = expected
           /\ \A i \in 1 .. Len(issued) :
                 issued[i].fn = "CreateSpatialIndex" =>
                     \E j \in 1 .. i - 1 : issued[j].fn = "AddGeometryColumn"

C4_Witness ==
    /\ LastIs("create")
    /\ last[1].column = Roads
    /\ raised = <<>>
    /\ Len(issued) = 3

(* C5: the drop hook issues DiscardGeometryColumn(table, column) last;     *)
(* with the flag set and the gate true it first issues                    *)
(* DisableSpatialIndex and DROP TABLE idx_<table>_<column>, otherwise     *)
(* nothing before it; and no index storage relation of a column exists    *)
(* without the column's metadata row.                                     *)
C5_DropDeregistersLast ==
    /\ \A c \in Columns :
          IndexStorage(c.table.name, c.name) \in relations => Entry(c) \in catalog
    /\ LastIs("drop") =>
          LET c == last[1].column
              deregistration ==
                  [fn |-> "DiscardGeometryColumn",
                   args |-> <<c.table.name, c.name>>]
              index == <<[fn |-> "DisableSpatialIndex",
                          args |-> <<c.table.name, c.name>>],
                         [fn |-> "DROP TABLE",
                          args |-> <<"idx_" \o c.table.name \o "_" \o c.name>>]>>
              expected == IF Gated(c) THEN index \o <<deregistration>>
                          ELSE <<deregistration>>
          IN /\ IsPrefix(issued, expected)
             /\ raised = <<>> => /\ issued = expected
                                 /\ issued[Len(issued)] = deregistration

C5_Witness ==
    /\ LastIs("drop")
    /\ last[1].column = Roads
    /\ raised = <<>>
    /\ Len(issued) = 3

(* C6: a create hook followed by a drop hook on the same column and the    *)
(* same connection, both completing, leaves no index storage relation and *)
(* no metadata row for the column.                                        *)
C6_CreateDropRoundTrip ==
    (LastIs("drop") /\ last[1].from = "created" /\ raised = <<>>) =>
        LET c == last[1].column
        IN /\ IndexStorage(c.table.name, c.name) \notin relations
           /\ Entry(c) \notin catalog

C6_Witness ==
    /\ LastIs("drop")
    /\ last[1].from = "created"
    /\ last[1].column = Lakes
    /\ raised = <<>>
    /\ Len(issued) = 3
    /\ schema[Lakes] = "absent"

(* C7: a failing statement ends the hook: it is the last one issued, none  *)
(* is issued twice, the caller receives that failure, and what the        *)
(* earlier statements did stays done.                                     *)
C7_FailureStopsHook ==
    (raised # <<>> /\ (LastIs("create") \/ LastIs("drop"))) =>
        LET c == last[1].column
            n == Len(issued)
        IN /\ n >= 1
           /\ raised = <<issued[n]>>
           /\ \A i, j \in 1 .. n : issued[i] = issued[j] => i = j
           /\ (LastIs("create") /\ n >= 2) => Entry(c) \in catalog
           /\ (LastIs("create") /\ n = 3) =>
                 IndexStorage(c.table.name, c.name) \in relations
           /\ (LastIs("drop") /\ last[1].from = "created" /\ n = 2) =>
                 /\ Entry(c) \notin enabled
                 /\ Entry(c) \in catalog
                 /\ IndexStorage(c.table.name, c.name) \in relations
           /\ (LastIs("drop") /\ last[1].from = "created" /\ n = 3) =>
                 /\ Entry(c) \in catalog
                 /\ IndexStorage(c.table.name, c.name) \notin relations

C7_Witness ==
    /\ LastIs("create")
    /\ last[1].column = Roads
    /\ raised # <<>>
    /\ raised[1].fn = "CreateSpatialIndex"
    /\ Entry(Roads) \in catalog

(* C10: whenever the rewrite emits the indexed form for a column whose     *)
(* create hook completed and whose drop hook has not run, the relation    *)
(* named in the membership subquery exists: it is the one the create hook *)
(* produced.                                                              *)
C10_RewriteNamesCreatedIndex ==
    (/\ emitted # <<>>
     /\ emitted[1].expr.membership # <<>>
     /\ schema[emitted[1].geom1.column] = "created")
        => emitted[1].expr.membership[1].pkid \in relations

----------------------------------------------------------------------------
(* The gate specification: supports_rtree on a connection of any version. *)

IdleHooks ==
    /\ catalog = {}
    /\ relations = {}
    /\ enabled = {}
    /\ schema = [c \in Columns |-> "absent"]
    /\ issued = <<>>
    /\ raised = <<>>
    /\ last = <<>>
    /\ emitted = <<>>

InitGate ==
    /\ server_version_info \in Versions
    /\ gateAnswer = <<>>
    /\ resolved = <<>>
    /\ dispatched = <<>>
    /\ probe = <<>>
    /\ selected = <<>>
    /\ IdleHooks

CheckGate ==
    /\ gateAnswer = <<>>
    /\ gateAnswer' = <<supports_rtree(server_version_info)>>
    /\ UNCHANGED <<server_version_info, hookVars, catalogVars, filterVars>>

SpecGate == InitGate /\ [][CheckGate]_vars

(* C3: the gate is a floor check against 3.6: true for every version whose *)
(* (major, minor) is at least (3, 6), false for every version below it.   *)
C3_GateIsFloorCheck ==
    gateAnswer # <<>> =>
        (gateAnswer[1] <=>
            (\/ server_version_info[1] > 3
             \/ (server_version_info[1] = 3 /\ server_version_info[2] >= 6)))

----------------------------------------------------------------------------
(* The filter specification: one stored row geometry of an indexed column, *)
(* one query geometry and one distance, and the rows the two forms of the  *)
(* within-distance query select.  Geometries are axis-parallel: points,    *)
(* segments and rectangles on a grid.                                      *)

MaxCoord == 2

Coords == 0 .. MaxCoord

WellFormed(g) == g.xmin <= g.xmax /\ g.ymin <= g.ymax

Geometries ==
    {g \in [xmin : Coords, xmax : Coords, ymin : Coords, ymax : Coords] :
        WellFormed(g)}

Max(a, b) == IF a >= b THEN a ELSE b

(* The gap between two intervals: 0 when they meet. *)
Gap(lo1, hi1, lo2, hi2) == Max(0, Max(lo2 - hi1, lo1 - hi2))

(* The engine's Distance(g1, g2) <= d, on squares to stay in the integers. *)
DistanceWithin(g1, g2, d) ==
    LET gx == Gap(g1.xmin, g1.xmax, g2.xmin, g2.xmax)
        gy == Gap(g1.ymin, g1.ymax, g2.ymin, g2.ymax)
    IN gx * gx + gy * gy <= d * d

(* The where clause of the membership subquery, on the bounds the index    *)
(* relation stores for the row: the row's own bounding box.                *)
index_filter(row, geom2, distance) ==
    /\ row.xmin >= geom2.xmin - distance
    /\ row.xmax <= geom2.xmax + distance
    /\ row.ymin >= geom2.ymin - distance
    /\ row.ymax <= geom2.ymax + distance

indexed_form_selects(row, geom2, distance) ==
    DistanceWithin(row, geom2, distance) /\ index_filter(row, geom2, distance)

unindexed_form_selects(row, geom2, distance) ==
    DistanceWithin(row, geom2, distance)

InitFilter ==
    /\ server_version_info = <<3, 6, 0>>
    /\ probe \in {<<[row |-> r, geom2 |-> g, distance |-> d]>> :
                    r \in Geometries, g \in Geometries,
                    d \in 0 .. MaxDistance}
    /\ selected = <<>>
    /\ gateAnswer = <<>>
    /\ resolved = <<>>
    /\ dispatched = <<>>
    /\ IdleHooks

RunQuery ==
    /\ selected = <<>>
    /\ selected' = <<[indexed |-> indexed_form_selects(probe[1].row,
                                     probe[1].geom2, probe[1].distance),
                      unindexed |-> unindexed_form_selects(probe[1].row,
                                     probe[1].geom2, probe[1].distance)]>>
    /\ UNCHANGED <<server_version_info, probe, hookVars, gateVars, catalogVars>>

SpecFilter == InitFilter /\ [][RunQuery]_vars

(* C2: the bounding-box pre-filter never excludes a true positive: a row   *)
(* within the distance of the query geometry passes the filter, so both   *)
(* forms select the same rows, whatever the row's extent.                 *)
C2_FilterIsConservative ==
    selected # <<>> =>
        LET q == probe[1]
        IN /\ DistanceWithin(q.row, q.geom2, q.distance)
                => index_filter(q.row, q.geom2, q.distance)
           /\ selected[1].indexed = selected[1].unindexed

----------------------------------------------------------------------------
(* The catalog specification: function resolution through the dialect's    *)
(* map and name dispatch on the two adapters.  An operation is identified  *)
(* by the class that defines it and its name.                              *)

Op(owner, name) == <<owner, name>>

Name(sql) == [kind |-> "name", value |-> sql]
Routine(r) == [kind |-> "routine", value |-> r]
None == [kind |-> "none", value |-> ""]

SQLiteFunctions ==
    Op("functions", "within_distance") :> None
    @@ Op("functions", "length") :> Name("GLength")
    @@ Op("sqlite_functions", "svg") :> Name("AsSVG")
    @@ Op("sqlite_functions", "fgf") :> Name("AsFGF")
    @@ Op("sqlite_functions", "is_valid") :> Name("IsValid")
    @@ Op("mysql_functions", "mbr_equal") :> Name("MBREqual")
    @@ Op("mysql_functions", "mbr_disjoint") :> Name("MBRDisjoint")
    @@ Op("mysql_functions", "mbr_intersects") :> Name("MBRIntersects")
    @@ Op("mysql_functions", "mbr_touches") :> Name("MBRTouches")
    @@ Op("mysql_functions", "mbr_within") :> Name("MBRWithin")
    @@ Op("mysql_functions", "mbr_overlaps") :> Name("MBROverlaps")
    @@ Op("mysql_functions", "mbr_contains") :> Name("MBRContains")
    @@ Op("functions", "_within_distance")
         :> Routine("sqlite_functions._within_distance")

(* A mapping method that returns no entries. *)
get_function_mapping_empty == <<>>

get_function_mapping == SQLiteFunctions

(* The map of the base dialect: bindings shared by all dialects. *)
BaseFunctions ==
    Op("functions", "wkt") :> Name("AsText")
    @@ Op("functions", "area") :> Name("Area")
    @@ Op("functions", "length") :> Name("Length")
    @@ Op("functions", "within_distance") :> Name("DWithin")

Unsupported == [status |-> "Unsupported", binding |-> None]
Bound_to(b) == [status |-> "bound", binding |-> b]

(* The base dialect's lookup: the dialect's own map, then the base map. *)
resolve(op) ==
    IF op \in DOMAIN get_function_mapping
    THEN IF get_function_mapping[op] = None THEN Unsupported
         ELSE Bound_to(get_function_mapping[op])
    ELSE IF op \in DOMAIN BaseFunctions THEN Bound_to(BaseFunctions[op])
    ELSE Unsupported

Operations ==
    DOMAIN SQLiteFunctions \cup DOMAIN BaseFunctions
    \cup {Op("pg_functions", "gml")}

(* The names the base operation set (functions) defines. *)
BaseOperations == {"within_distance", "length", "_within_distance"}

(* The names sqlite_functions defines itself, and those it inherits. *)
OwnOperations == {"svg", "fgf", "is_valid", "_within_distance"}
InheritedOperations ==
    {"mbr_equal", "mbr_disjoint", "mbr_intersects", "mbr_touches",
     "mbr_within", "mbr_overlaps", "mbr_contains"}

AttributeError == [status |-> "AttributeError", op |-> Op("", "")]
Found(op) == [status |-> "found", op |-> op]

(* SpatialComparator.__getattr__ and PersistentSpatialElement.__getattr__ *)
base_getattr(name) ==
    IF name \in BaseOperations THEN Found(Op("functions", name))
    ELSE AttributeError

(* getattr(sqlite_functions, name) *)
sqlite_functions_getattr(name) ==
    IF name \in OwnOperations THEN Found(Op("sqlite_functions", name))
    ELSE IF name \in InheritedOperations THEN Found(Op("mysql_functions", name))
    ELSE AttributeError

(* A comparator that looks in sqlite_functions before the base set. *)
SQLiteComparator_getattr_dialect_first(name) ==
    IF sqlite_functions_getattr(name).status = "found"
    THEN sqlite_functions_getattr(name)
    ELSE base_getattr(name)

SQLiteComparator_getattr(name) ==
    IF base_getattr(name).status = "found"
    THEN base_getattr(name)
    ELSE sqlite_functions_getattr(name)

SQLitePersistentSpatialElement_getattr(name) ==
    IF base_getattr(name).status = "found"
    THEN base_getattr(name)
    ELSE sqlite_functions_getattr(name)

AttributeNames ==
    BaseOperations \cup OwnOperations \cup InheritedOperations
    \cup {"no_such_operation"}

InitCatalog ==
    /\ server_version_info = <<3, 6, 0>>
    /\ resolved = <<>>
    /\ dispatched = <<>>
    /\ gateAnswer = <<>>
    /\ probe = <<>>
    /\ selected = <<>>
    /\ IdleHooks

Resolve(op) ==
    /\ resolved' = <<[op |-> op, result |-> resolve(op)]>>
    /\ UNCHANGED <<server_version_info, dispatched, hookVars, gateVars, filterVars>>

ComparatorGetattr(name) ==
    /\ dispatched' = <<[adapter |-> "SQLiteComparator", name |-> name,
                        result |-> SQLiteComparator_getattr(name)]>>
    /\ UNCHANGED <<server_version_info, resolved, hookVars, gateVars, filterVars>>

ElementGetattr(name) ==
    /\ dispatched' = <<[adapter |-> "SQLitePersistentSpatialElement",
                        name |-> name,
                        result |-> SQLitePersistentSpatialElement_getattr(name)]>>
    /\ UNCHANGED <<server_version_info, resolved, hookVars, gateVars, filterVars>>

NextCatalog ==
    \/ \E op \in Operations : Resolve(op)
    \/ \E name \in AttributeNames : ComparatorGetattr(name)
    \/ \E name \in AttributeNames : ElementGetattr(name)

SpecCatalog == InitCatalog /\ [][NextCatalog]_vars

(* C8: resolution is two-tier: a key of the SQLite map resolves to the     *)
(* SQLite binding (length to GLength, _within_distance to the rewrite     *)
(* routine), never to the base binding; a key of the base map alone       *)
(* resolves to the base binding; an operation in neither is Unsupported;  *)
(* and within_distance, which the SQLite map marks None, is Unsupported   *)
(* although the base map binds it.                                        *)
C8_TwoTierResolution ==
    resolved # <<>> =>
        LET op == resolved[1].op
            r == resolved[1].result
        IN /\ (op \in DOMAIN SQLiteFunctions /\ SQLiteFunctions[op] # None)
                => r = [status |-> "bound", binding |-> SQLiteFunctions[op]]
           /\ (op \in DOMAIN SQLiteFunctions /\ SQLiteFunctions[op] = None)
                => r.status = "Unsupported"
           /\ (op \notin DOMAIN SQLiteFunctions /\ op \in DOMAIN BaseFunctions)
                => r = [status |-> "bound", binding |-> BaseFunctions[op]]
           /\ (op \notin DOMAIN SQLiteFunctions /\ op \notin DOMAIN BaseFunctions)
                => r.status = "Unsupported"
           /\ op = <<"functions", "length">>
                => r.binding = [kind |-> "name", value |-> "GLength"]
           /\ op = <<"functions", "_within_distance">>
                => r.binding = [kind |-> "routine",
                                value |-> "sqlite_functions._within_distance"]
           /\ op = <<"functions", "within_distance">>
                => r.status = "Unsupported"

C8_Witness ==
    /\ resolved # <<>>
    /\ resolved[1].op = <<"functions", "length">>
    /\ resolved[1].result.status = "bound"
    /\ resolved[1].result.binding.value = "GLength"

(* C9 as stated: both adapters look a name up in the dialect's own set     *)
(* first and in the base set only when it is not there, so a name both    *)
(* sets define yields the dialect's operation; the lookup fails only for  *)
(* a name in neither set.                                                 *)
C9_DialectSetFirst ==
    dispatched # <<>> =>
        LET name == dispatched[1].name
            r == dispatched[1].result
            dialect == OwnOperations \cup InheritedOperations
        IN /\ name \in OwnOperations
                => r = [status |-> "found", op |-> <<"sqlite_functions", name>>]
           /\ name \in InheritedOperations
                => r = [status |-> "found", op |-> <<"mysql_functions", name>>]
           /\ (name \notin dialect /\ name \in BaseOperations)
                => r = [status |-> "found", op |-> <<"functions", name>>]
           /\ (r.status = "AttributeError")
                <=> (name \notin dialect /\ name \notin BaseOperations)

(* C9 as amended: both adapters look a name up in the base set first and   *)
(* in the dialect's own set only when the base lookup fails, so a name    *)
(* both sets define yields the base operation; the lookup fails only for  *)
(* a name in neither set.                                                 *)
C9_BaseSetFirst ==
    dispatched # <<>> =>
        LET name == dispatched[1].name
            r == dispatched[1].result
            dialect == OwnOperations \cup InheritedOperations
        IN /\ name \in BaseOperations
                => r = [status |-> "found", op |-> <<"functions", name>>]
           /\ (name \notin BaseOperations /\ name \in OwnOperations)
                => r = [status |-> "found", op |-> <<"sqlite_functions", name>>]
           /\ (name \notin BaseOperations /\ name \in InheritedOperations)
                => r = [status |-> "found", op |-> <<"mysql_functions", name>>]
           /\ (r.status = "AttributeError")
                <=> (name \notin dialect /\ name \notin BaseOperations)

C9_Witness ==
    /\ dispatched # <<>>
    /\ dispatched[1].adapter = "SQLiteComparator"
    /\ dispatched[1].name = "_within_distance"
    /\ dispatched[1].result.status = "found"

====
